---- MODULE Spec2Model ----
(***************************************************************************)
(* Model of hmdriver2/_xpath.py: the XPath locator (_XPath) and the        *)
(* element handle it returns (_XMLElement).                                *)
(*                                                                         *)
(* Python strings are tuples of code points.  Python None is PyNone; a     *)
(* value that may be None or a str is PyNone or Str(s).  Dicts are         *)
(* functions whose DOMAIN is the set of keys.                              *)
(***************************************************************************)
EXTENDS Integers, Sequences, FiniteSets, TLC

VARIABLES screen, el, el0, calls, ret

vars == <<screen, el, el0, calls, ret>>

(***************************************************************************)
(* Bounds of the model.                                                    *)
(***************************************************************************)
\* most children of an inner node of a generated hierarchy snapshot
MaxChildren == 2
\* most driver calls recorded since the last locate (the recording driver)
MaxCalls == 3

(***************************************************************************)
(* Python values.                                                          *)
(***************************************************************************)
PyNone == [t |-> "NoneType"]

Str(s) == [t |-> "str", v |-> s]

EmptyDict == [k \in {} |-> <<>>]

\* dict.get(k, default)
Get(d, k, default) == IF k \in DOMAIN d THEN d[k] ELSE default

\* decimal digits of a natural number, most significant first
RECURSIVE Digits(_)
Digits(n) == IF n < 10 THEN <<48 + n>> ELSE Digits(n \div 10) \o <<48 + (n % 10)>>

\* str(v) of a scalar attribute value of the hierarchy
PyStr(v) ==
  CASE v.t = "str" -> v.v
    [] v.t = "int" -> IF v.v < 0 THEN <<45>> \o Digits(-v.v) ELSE Digits(v.v)
    [] v.t = "bool" -> IF v.v THEN <<84, 114, 117, 101>> ELSE <<70, 97, 108, 115, 101>>
    [] v.t = "NoneType" -> <<78, 111, 110, 101>>

\* str.isspace() of one character
IsSpace(c) == c \in (9..13) \cup (28..32) \cup {133, 160}

\* str.strip()
RECURSIVE LStrip(_)
LStrip(s) == IF s # <<>> /\ IsSpace(Head(s)) THEN LStrip(Tail(s)) ELSE s

RECURSIVE RStrip(_)
RStrip(s) == IF s # <<>> /\ IsSpace(s[Len(s)]) THEN RStrip(SubSeq(s, 1, Len(s) - 1)) ELSE s

Strip(s) == RStrip(LStrip(s))

(***************************************************************************)
(* Collaborators that live outside _xpath.py: utils.parse_bounds and       *)
(* proto.Bounds.get_center.                                                *)
(***************************************************************************)
IsDigit(c) == c \in 48..57

RECURSIVE DigitRun(_, _)
DigitRun(s, i) == IF i <= Len(s) /\ IsDigit(s[i]) THEN 1 + DigitRun(s, i + 1) ELSE 0

RECURSIVE ToInt(_)
ToInt(ds) == IF ds = <<>> THEN 0 ELSE 10 * ToInt(SubSeq(ds, 1, Len(ds) - 1)) + (ds[Len(ds)] - 48)

CharAt(s, i) == IF i >= 1 /\ i <= Len(s) THEN s[i] ELSE -1

\* parse_bounds: "[x1,y1][x2,y2]" with integer coordinates, else no Bounds
parse_bounds(raw) ==
  IF raw = PyNone THEN PyNone
  ELSE LET s == raw.v
           a == 2
           la == DigitRun(s, a)
           b == a + la + 1
           lb == DigitRun(s, b)
           c == b + lb + 2
           lc == DigitRun(s, c)
           d == c + lc + 1
           ld == DigitRun(s, d)
           ok == /\ CharAt(s, 1) = 91
                 /\ la > 0 /\ CharAt(s, a + la) = 44
                 /\ lb > 0 /\ CharAt(s, b + lb) = 93
                 /\ CharAt(s, b + lb + 1) = 91
                 /\ lc > 0 /\ CharAt(s, c + lc) = 44
                 /\ ld > 0 /\ CharAt(s, d + ld) = 93
                 /\ Len(s) = d + ld
       IN IF ok
          THEN [t |-> "Bounds",
                left |-> ToInt(SubSeq(s, a, a + la - 1)),
                top |-> ToInt(SubSeq(s, b, b + lb - 1)),
                right |-> ToInt(SubSeq(s, c, c + lc - 1)),
                bottom |-> ToInt(SubSeq(s, d, d + ld - 1))]
          ELSE PyNone

\* Bounds.get_center: the midpoint of the rectangle
get_center(b) == [x |-> (b.left + b.right) \div 2, y |-> (b.top + b.bottom) \div 2]

(***************************************************************************)
(* _XPath._sanitize_text and _XPath._json2xml.                             *)
(***************************************************************************)
\* re.sub(r'[\x00-\x1F\x7F]', '', text)
IsIllegal(c) == (c >= 0 /\ c <= 31) \/ c = 127

\* the pattern without \x7F
_sanitize_text_keeps_del(text) == SelectSeq(text, LAMBDA c : ~(c >= 0 /\ c <= 31))

_sanitize_text(text) == SelectSeq(text, LAMBDA c : ~IsIllegal(c))

orgRoot == <<111, 114, 103, 82, 111, 111, 116>>

\* the children of an element, in the order _json2xml appends them
AppendChildren(built) == built

RECURSIVE _json2xml(_)
_json2xml(hierarchy) ==
  LET attributes == Get(hierarchy, "attributes", EmptyDict)
      cleaned_attributes ==
        [k \in DOMAIN attributes |-> _sanitize_text(PyStr(attributes[k]))]
      got == Get(cleaned_attributes, "type", orgRoot)
      tag == IF got = <<>> THEN orgRoot ELSE got
      children == Get(hierarchy, "children", <<>>)
  IN [tag |-> tag,
      attrib |-> cleaned_attributes,
      text |-> PyNone,
      children |-> AppendChildren([i \in 1..Len(children) |-> _json2xml(children[i])])]

(***************************************************************************)
(* The XPath evaluator (lxml): the fragment  //*,  //TAG  and              *)
(* //*[@key='value'];  a node-set result is in document order.             *)
(***************************************************************************)
RECURSIVE DocOrder(_)
RECURSIVE DocOrderAll(_)
DocOrder(node) == <<node>> \o DocOrderAll(node.children)

DocOrderAll(nodes) ==
  IF nodes = <<>> THEN <<>> ELSE DocOrder(Head(nodes)) \o DocOrderAll(Tail(nodes))

Matches(node, xpath) ==
  CASE xpath.kind = "all" -> TRUE
    [] xpath.kind = "tag" -> node.tag = xpath.tag
    [] xpath.kind = "attr" -> xpath.key \in DOMAIN node.attrib /\ node.attrib[xpath.key] = xpath.val

XPathEval(xml, xpath) == SelectSeq(DocOrder(xml), LAMBDA n : Matches(n, xpath))

\* node.attrib.get(key): None when the attribute is missing
AttribGet(attrib, key) == IF key \in DOMAIN attrib THEN Str(attrib[key]) ELSE PyNone

(***************************************************************************)
(* Hierarchy snapshots the driver can return from dump_hierarchy().        *)
(* A snapshot is a dict with optional keys "attributes" and "children";    *)
(* attribute values are scalars of any type.                               *)
(***************************************************************************)
PyInt(n) == [t |-> "int", v |-> n]

PyBool(b) == [t |-> "bool", v |-> b]

\* "[10,20][30,60]"
BoundsText == <<91, 49, 48, 44, 50, 48, 93, 91, 51, 48, 44, 54, 48, 93>>

\* "[2,<NUL>2][6,6<DEL>]": well-formed once the control characters are gone
BoundsDirty == <<91, 50, 44, 0, 50, 93, 91, 54, 44, 54, 127, 93>>

\* "[1,2]": not of the form [x1,y1][x2,y2]
BoundsBad == <<91, 49, 44, 50, 93>>

\* type "A", text " <TAB>Hi ", good bounds
AttrsButton ==
  [type |-> Str(<<65>>), text |-> Str(<<32, 9, 72, 105, 32>>), bounds |-> Str(BoundsText)]

\* type "A", no text, bounds with control characters inside
AttrsImage == [type |-> Str(<<65>>), bounds |-> Str(BoundsDirty)]

\* type "B", text the integer 7, malformed bounds
AttrsBroken == [type |-> Str(<<66>>), text |-> PyInt(7), bounds |-> Str(BoundsBad)]

\* type "<NUL>" (empty once sanitized), text None, no bounds attribute
AttrsBare == [type |-> Str(<<0>>), text |-> PyNone]

\* type "B", text of whitespace only (NBSP, LF, space), a boolean attribute
AttrsBlank ==
  [type |-> Str(<<66>>), text |-> Str(<<160, 10, 32>>), checked |-> PyBool(TRUE),
   bounds |-> Str(BoundsText)]

LeafAttrs == {AttrsButton, AttrsImage, AttrsBroken, AttrsBare, AttrsBlank}

ChildAttrs == {AttrsButton, AttrsImage}

Leaves == {[attributes |-> a] : a \in LeafAttrs}

ChildLeaves == {[attributes |-> a, children |-> <<>>] : a \in ChildAttrs}

ChildSeqs == UNION {[1..n -> ChildLeaves] : n \in 1..MaxChildren}

\* a root without attributes over a row of leaves
Flat == {[children |-> cs] : cs \in ChildSeqs}

\* a root over an inner node (with one child of its own) followed by a leaf
Nested ==
  {[attributes |-> AttrsBare,
    children |-> <<[attributes |-> AttrsBroken, children |-> <<c1>>], c2>>] :
     c1 \in ChildLeaves, c2 \in ChildLeaves}

\* dump_hierarchy() found nothing: the empty dict, or None
EmptySnapshot == EmptyDict

Snapshots == Leaves \cup Flat \cup Nested \cup {EmptySnapshot, PyNone}

\* "hierarchy is None" for "not hierarchy"
FalsyNoneOnly(hierarchy) == hierarchy = PyNone

\* bool(hierarchy) is False
Falsy(hierarchy) == hierarchy = PyNone \/ DOMAIN hierarchy = {}

(***************************************************************************)
(* XPath expressions the caller passes.                                    *)
(***************************************************************************)
XPaths ==
  {[kind |-> "all"]}
    \cup {[kind |-> "tag", tag |-> t] : t \in {<<65>>, <<66>>, orgRoot, <<90>>}}
    \cup {[kind |-> "attr", key |-> "bounds", val |-> BoundsText],
          [kind |-> "attr", key |-> "text", val |-> <<55>>]}

\* text the caller types into an element
Texts == {<<111, 107>>, <<32>>}

(***************************************************************************)
(* _XMLElement.  center is the cached_property: NotCached until the first  *)
(* access that returns.  An operation yields the element afterwards, the   *)
(* driver calls it made, and what it returned or that it raised.           *)
(***************************************************************************)
NotCached == [t |-> "unset"]

\* __init__(bounds, d)
_XMLElement(bounds) ==
  [bounds |-> bounds, attrib_info |-> EmptyDict, _xml_node |-> PyNone, center |-> NotCached]

Returns(e, value, made) == [raised |-> FALSE, value |-> value, el |-> e, calls |-> made]

Raises(e) == [raised |-> TRUE, value |-> PyNone, el |-> e, calls |-> <<>>]

\* _verify raises XmlElementNotFoundError
_verify(e) == e.bounds = PyNone

center(e) ==
  IF e.center # NotCached THEN Returns(e, e.center, <<>>)
  ELSE IF _verify(e) THEN Raises(e)
  ELSE Returns([e EXCEPT !.center = get_center(e.bounds)], get_center(e.bounds), <<>>)

\* "is None" for "is not None"
exists_inverted(e) == e.bounds = PyNone

exists(e) == e.bounds # PyNone

\* the text attribute returned as stored, not stripped
get_text_untrimmed(e) ==
  IF e.bounds = PyNone THEN <<>>
  ELSE LET text == Get(e.attrib_info, "text", <<>>)
       IN IF Strip(text) # <<>> THEN text ELSE <<>>

get_text(e) ==
  IF ~exists(e) THEN <<>>
  ELSE LET text == Strip(Get(e.attrib_info, "text", <<>>))
       IN IF text # <<>> THEN text
          ELSE IF e._xml_node # PyNone
               THEN LET node_text == IF e._xml_node.text = PyNone THEN <<>> ELSE e._xml_node.text.v
                    IN Strip(node_text)
               ELSE <<>>

info(e) == e.attrib_info

\* the text property (the second definition, which is the one in effect)
text(e) == AttribGet(info(e), "text")

Tap(primitive, c) == <<[op |-> primitive, x |-> c.value.x, y |-> c.value.y]>>

click(e) ==
  LET c == center(e) IN IF c.raised THEN Raises(c.el) ELSE Returns(c.el, PyNone, Tap("click", c))

\* no exists() check before the click
click_if_exists_unchecked(e) ==
  LET c == center(e) IN IF c.raised THEN Raises(c.el) ELSE Returns(c.el, PyNone, Tap("click", c))

click_if_exists(e) ==
  IF ~exists(e) THEN Returns(e, PyNone, <<>>)
  ELSE LET c == center(e)
       IN IF c.raised THEN Raises(c.el) ELSE Returns(c.el, PyNone, Tap("click", c))

double_click(e) ==
  LET c == center(e)
  IN IF c.raised THEN Raises(c.el) ELSE Returns(c.el, PyNone, Tap("double_click", c))

\* the body of click pasted unchanged
long_click_as_click(e) ==
  LET c == center(e) IN IF c.raised THEN Raises(c.el) ELSE Returns(c.el, PyNone, Tap("click", c))

long_click(e) ==
  LET c == center(e)
  IN IF c.raised THEN Raises(c.el) ELSE Returns(c.el, PyNone, Tap("long_click", c))

\* the text sent before the click that focuses the element
input_text_before_click(e, txt) ==
  LET r == click(e)
  IN IF r.raised THEN r
     ELSE Returns(r.el, PyNone, <<[op |-> "input_text", text |-> txt]>> \o r.calls)

input_text(e, txt) ==
  LET r == click(e)
  IN IF r.raised THEN r
     ELSE Returns(r.el, PyNone, r.calls \o <<[op |-> "input_text", text |-> txt]>>)

(***************************************************************************)
(* _XPath.__call__ on the snapshot dump_hierarchy() returned.              *)
(***************************************************************************)
\* result[-1]
LastResult(result) == result[Len(result)]

\* node = result[0]
FirstResult(result) == result[1]

XPathCall(hierarchy, xpath) ==
  IF Falsy(hierarchy)
  THEN [raised |-> TRUE, normalized |-> FALSE, evaluated |-> FALSE, el |-> PyNone]
  ELSE LET xml == _json2xml(hierarchy)
           result == XPathEval(xml, xpath)
       IN IF Len(result) > 0
          THEN LET node == FirstResult(result)
                   raw_bounds == AttribGet(node.attrib, "bounds")
                   bounds == parse_bounds(raw_bounds)
               IN [raised |-> FALSE, normalized |-> TRUE, evaluated |-> TRUE,
                   el |-> [_XMLElement(bounds) EXCEPT !.attrib_info = node.attrib,
                                                      !._xml_node = node]]
          ELSE [raised |-> FALSE, normalized |-> TRUE, evaluated |-> TRUE,
                el |-> _XMLElement(PyNone)]

(***************************************************************************)
(* The state: the hierarchy on screen, the Element the caller holds (el),  *)
(* that Element as locate returned it (el0), the calls the driver has      *)
(* received since the last locate, and what the last operation did.        *)
(***************************************************************************)
NoElement == [t |-> "no element"]

Init ==
  /\ screen \in Snapshots
  /\ el = NoElement
  /\ el0 = NoElement
  /\ calls = <<>>
  /\ ret = [op |-> "init", outcome |-> "ok", value |-> PyNone, before |-> 0, arg |-> PyNone]

\* the device's screen changes under the caller
ScreenChange ==
  \E h \in Snapshots \ {screen} :
    /\ screen' = h
    /\ ret' = [op |-> "screen", outcome |-> "ok", value |-> PyNone, before |-> Len(calls),
               arg |-> PyNone]
    /\ UNCHANGED <<el, el0, calls>>

Locate ==
  \E xpath \in XPaths :
    LET r == XPathCall(screen, xpath)
    IN /\ calls' = <<[op |-> "dump_hierarchy"]>>
       /\ ret' = [op |-> "locate",
                  outcome |-> IF r.raised THEN "RuntimeError" ELSE "ok",
                  value |-> r.el, before |-> 0, arg |-> xpath,
                  normalized |-> r.normalized, evaluated |-> r.evaluated]
       /\ IF r.raised THEN UNCHANGED <<el, el0>> ELSE el' = r.el /\ el0' = r.el
       /\ UNCHANGED screen

\* an operation of the Element the caller holds
Operate(name, arg, r) ==
  /\ Len(calls) + Len(r.calls) <= MaxCalls
  /\ el' = r.el
  /\ calls' = calls \o r.calls
  /\ ret' = [op |-> name,
             outcome |-> IF r.raised THEN "XmlElementNotFoundError" ELSE "ok",
             value |-> r.value, before |-> Len(calls), arg |-> arg]
  /\ UNCHANGED <<screen, el0>>

Exists == el # NoElement /\ Operate("exists", PyNone, Returns(el, exists(el), <<>>))

Center == el # NoElement /\ Operate("center", PyNone, center(el))

GetText == el # NoElement /\ Operate("get_text", PyNone, Returns(el, get_text(el), <<>>))

Info == el # NoElement /\ Operate("info", PyNone, Returns(el, info(el), <<>>))

Text == el # NoElement /\ Operate("text", PyNone, Returns(el, text(el), <<>>))

Click == el # NoElement /\ Operate("click", PyNone, click(el))

\* click_if_exists looking at the screen again before it acts
ClickIfExistsRevalidating ==
  /\ el # NoElement
  /\ Operate("click_if_exists", PyNone,
             click_if_exists(IF Falsy(screen) THEN _XMLElement(PyNone) ELSE el))

ClickIfExists == el # NoElement /\ Operate("click_if_exists", PyNone, click_if_exists(el))

DoubleClick == el # NoElement /\ Operate("double_click", PyNone, double_click(el))

LongClick == el # NoElement /\ Operate("long_click", PyNone, long_click(el))

InputText ==
  el # NoElement /\ \E txt \in Texts : Operate("input_text", Str(txt), input_text(el, txt))

Next ==
  \/ ScreenChange
  \/ Locate
  \/ Exists
  \/ Center
  \/ GetText
  \/ Info
  \/ Text
  \/ Click
  \/ ClickIfExists
  \/ DoubleClick
  \/ LongClick
  \/ InputText

Spec == Init /\ [][Next]_vars

(***************************************************************************)
(* Vocabulary of the properties, stated on the input snapshot itself.      *)
(***************************************************************************)
NotFound == "XmlElementNotFoundError"

ChildrenOf(h) == Get(h, "children", <<>>)

\* the paths (child indices from the root) of the nodes of a snapshot
RECURSIVE PathsOf(_)
PathsOf(h) ==
  {<<>>} \cup UNION {{<<i>> \o p : p \in PathsOf(ChildrenOf(h)[i])} : i \in 1..Len(ChildrenOf(h))}

RECURSIVE NodeAt(_, _)
NodeAt(h, p) == IF p = <<>> THEN h ELSE NodeAt(ChildrenOf(h)[Head(p)], Tail(p))

\* p comes before q in document order (pre-order, children in input order)
RECURSIVE Before(_, _)
Before(p, q) ==
  IF p = <<>> THEN q # <<>>
  ELSE IF q = <<>> THEN FALSE
  ELSE IF Head(p) = Head(q) THEN Before(Tail(p), Tail(q))
  ELSE Head(p) < Head(q)

Clean(s) == \A i \in 1..Len(s) : ~(s[i] \in 0..31 \/ s[i] = 127)

\* what the node of the snapshot at path p looks like to the evaluator
Seen(h, p) == _json2xml(NodeAt(h, p))

MatchPaths(h, xpath) == {p \in PathsOf(h) : Matches(Seen(h, p), xpath)}

Present(h) == h # PyNone /\ h # EmptyDict

Midpoint(b, c) ==
  /\ 2 * c.x <= b.left + b.right /\ b.left + b.right <= 2 * c.x + 1
  /\ 2 * c.y <= b.top + b.bottom /\ b.top + b.bottom <= 2 * c.y + 1

HasElement == el # NoElement

\* the calls the last operation made
Made == SubSeq(calls, ret.before + 1, Len(calls))

\* the Element the caller holds came from a locate that matched nothing
FromNoMatch == HasElement /\ el0._xml_node = PyNone

(***************************************************************************)
(* C1: locate on an expression that matches no node of the normalized tree *)
(* returns, without raising, an Element whose exists() is false and whose  *)
(* attribute mapping is empty; every access to center on it fails with     *)
(* XmlElementNotFoundError.                                                *)
(***************************************************************************)
C1_NoMatchGivesUnbound ==
  /\ (ret.op = "locate" /\ Present(screen) /\ MatchPaths(screen, ret.arg) = {})
       => /\ ret.outcome = "ok"
          /\ ret.value = el
          /\ ~exists(el)
          /\ info(el) = EmptyDict
          /\ FromNoMatch
  /\ FromNoMatch
       => /\ ~exists(el)
          /\ info(el) = EmptyDict
          /\ el.center = NotCached
          /\ ret.op = "exists" => ret.value = FALSE
          /\ ret.op = "info" => ret.value = EmptyDict
          /\ ret.op = "center" => ret.outcome = NotFound

\* center was read on a no-match Element and failed
C1_Witness ==
  /\ FromNoMatch
  /\ ret.op = "center"
  /\ ret.outcome = NotFound
  /\ ret.before = 1
  /\ Present(screen)

(***************************************************************************)
(* C2: on an unbound Element click, double_click and long_click raise      *)
(* XmlElementNotFoundError and the driver receives no call; on a bound     *)
(* Element each makes exactly one call, to its own tap primitive, with the *)
(* x/y of the center of bounds.                                            *)
(***************************************************************************)
C2_TapsNeedBounds ==
  (HasElement /\ ret.op \in {"click", "double_click", "long_click"})
    => IF el.bounds = PyNone
       THEN ret.outcome = NotFound /\ Made = <<>>
       ELSE /\ ret.outcome = "ok"
            /\ Len(Made) = 1
            /\ Made[1].op = ret.op
            /\ Midpoint(el.bounds, Made[1])

\* long_click on an unbound Element raised after the driver was left alone
C2_Witness ==
  /\ HasElement
  /\ ret.op = "long_click"
  /\ el.bounds = PyNone
  /\ ret.outcome = NotFound
  /\ calls = <<[op |-> "dump_hierarchy"]>>

(***************************************************************************)
(* C3: click_if_exists on an unbound Element makes no driver call and does *)
(* not raise; on a bound Element it makes the one driver call              *)
(* click(center.x, center.y) that click() makes.                           *)
(***************************************************************************)
C3_ClickIfExists ==
  (HasElement /\ ret.op = "click_if_exists")
    => /\ ret.outcome = "ok"
       /\ IF el.bounds = PyNone
          THEN Made = <<>>
          ELSE /\ Len(Made) = 1
               /\ Made[1].op = "click"
               /\ Midpoint(el.bounds, Made[1])

C3_Witness ==
  /\ HasElement
  /\ ret.op = "click_if_exists"
  /\ el.bounds = PyNone
  /\ ret.outcome = "ok"
  /\ Len(calls) = 1

(***************************************************************************)
(* C4: when dump_hierarchy returns an empty or absent snapshot, locate     *)
(* fails with an error: neither normalization nor the evaluator runs, no   *)
(* Element is returned, and one hierarchy capture has been made.           *)
(***************************************************************************)
C4_EmptyHierarchyFailsFast ==
  (ret.op = "locate" /\ ~Present(screen))
    => /\ ret.outcome = "RuntimeError"
       /\ ~ret.normalized
       /\ ~ret.evaluated
       /\ ret.value = PyNone
       /\ calls = <<[op |-> "dump_hierarchy"]>>

C4_Witness ==
  /\ ret.op = "locate"
  /\ screen = EmptySnapshot
  /\ ret.outcome = "RuntimeError"

(***************************************************************************)
(* C5: for a non-empty snapshot and an expression with at least one match, *)
(* locate returns the Element of the first match in document order: bounds *)
(* parsed from that node's bounds attribute, attributes that node's        *)
(* sanitized attributes, never those of a later match.                     *)
(***************************************************************************)
C5_FirstMatchInDocumentOrder ==
  (ret.op = "locate" /\ Present(screen) /\ MatchPaths(screen, ret.arg) # {})
    => /\ ret.outcome = "ok"
       /\ ret.value = el
       /\ \E p \in MatchPaths(screen, ret.arg) :
            /\ \A q \in MatchPaths(screen, ret.arg) : ~Before(q, p)
            /\ LET attributes == Get(NodeAt(screen, p), "attributes", EmptyDict)
               IN /\ DOMAIN el.attrib_info = DOMAIN attributes
                  /\ \A k \in DOMAIN attributes :
                       /\ Clean(el.attrib_info[k])
                       /\ el.attrib_info[k] = _sanitize_text(PyStr(attributes[k]))
                  /\ el.bounds = parse_bounds(AttribGet(el.attrib_info, "bounds"))
                  /\ el._xml_node.attrib = el.attrib_info

\* two nodes match, the first a grandchild of the root, with other attributes
C5_Witness ==
  /\ ret.op = "locate"
  /\ screen \in Nested
  /\ ret.arg = [kind |-> "tag", tag |-> <<65>>]
  /\ NodeAt(screen, <<1, 1>>) # NodeAt(screen, <<2>>)
  /\ el.bounds # PyNone

(***************************************************************************)
(* C6: for every Element locate returns, bounds is present iff a match was *)
(* found and its bounds attribute parsed, and an unbound Element has an    *)
(* empty attribute mapping: a matched node whose bounds attribute is       *)
(* missing or malformed yields the same Element as no match at all.        *)
(***************************************************************************)
C6_UnboundMeansEmpty ==
  (ret.op = "locate" /\ ret.outcome = "ok")
    => LET ms == MatchPaths(screen, ret.arg)
           parsed == \E p \in ms :
                       /\ \A q \in ms : ~Before(q, p)
                       /\ parse_bounds(AttribGet(Seen(screen, p).attrib, "bounds")) # PyNone
       IN /\ (el.bounds # PyNone) <=> (ms # {} /\ parsed)
          /\ ~exists(el) => info(el) = EmptyDict
          /\ (ms # {} /\ ~parsed) => el = _XMLElement(PyNone)

(***************************************************************************)
(* C7: input_text(text) on a bound Element makes two driver calls, click   *)
(* at the center and then input_text(text); on an unbound Element it       *)
(* raises XmlElementNotFoundError and makes no driver call.  Every         *)
(* input_text the driver receives comes right after that Element's click.  *)
(***************************************************************************)
C7_InputTextClicksFirst ==
  /\ (HasElement /\ ret.op = "input_text")
       => IF el.bounds = PyNone
          THEN ret.outcome = NotFound /\ Made = <<>>
          ELSE /\ ret.outcome = "ok"
               /\ Len(Made) = 2
               /\ Made[1].op = "click"
               /\ Midpoint(el.bounds, Made[1])
               /\ Made[2] = [op |-> "input_text", text |-> ret.arg.v]
  /\ \A i \in 1..Len(calls) :
       calls[i].op = "input_text"
         => /\ i > 1
            /\ calls[i - 1].op = "click"
            /\ el.bounds # PyNone
            /\ Midpoint(el.bounds, calls[i - 1])

C7_Witness ==
  /\ HasElement
  /\ ret.op = "input_text"
  /\ el.bounds # PyNone
  /\ ret.arg = Str(<<111, 107>>)
  /\ Len(calls) = 3

(***************************************************************************)
(* C8: get_text never raises.  Unbound: the empty string.  Otherwise the   *)
(* text attribute trimmed of surrounding whitespace when that is not       *)
(* empty, whatever the inner text; otherwise the matched node's inner text *)
(* trimmed, the empty string when there is no node or no inner text.       *)
(***************************************************************************)
\* t is s without its leading and trailing whitespace
Trimmed(s, t) ==
  \E i \in 1..(Len(s) + 1) :
    \E j \in 0..Len(s) :
      /\ t = SubSeq(s, i, j)
      /\ \A k \in 1..(i - 1) : IsSpace(s[k])
      /\ \A k \in (j + 1)..Len(s) : IsSpace(s[k])
      /\ t # <<>> => ~IsSpace(t[1]) /\ ~IsSpace(t[Len(t)])

C8_GetTextPriority ==
  (HasElement /\ ret.op = "get_text")
    => /\ ret.outcome = "ok"
       /\ IF el.bounds = PyNone THEN ret.value = <<>>
          ELSE LET attr == IF "text" \in DOMAIN el.attrib_info
                           THEN el.attrib_info["text"] ELSE <<>>
               IN IF \E k \in 1..Len(attr) : ~IsSpace(attr[k])
                  THEN ret.value # <<>> /\ Trimmed(attr, ret.value)
                  ELSE IF el._xml_node = PyNone THEN ret.value = <<>>
                  ELSE IF el._xml_node.text = PyNone THEN ret.value = <<>>
                  ELSE Trimmed(el._xml_node.text.v, ret.value)

\* the text attribute " Hi " gave "Hi"
C8_Witness ==
  /\ HasElement
  /\ ret.op = "get_text"
  /\ el.bounds # PyNone
  /\ "text" \in DOMAIN el.attrib_info
  /\ el.attrib_info["text"] = <<32, 72, 105, 32>>
  /\ ret.value = <<72, 105>>

(***************************************************************************)
(* C9: no attribute value of any node of the normalized tree holds a       *)
(* character in U+0000..U+001F or U+007F, whatever the scalar type of the  *)
(* value in the snapshot, and sanitizing twice equals sanitizing once.     *)
(***************************************************************************)
CleanNode(node) == \A k \in DOMAIN node.attrib : Clean(node.attrib[k])

C9_AttributesSanitized ==
  /\ Present(screen)
       => /\ LET nodes == DocOrder(_json2xml(screen))
             IN \A i \in 1..Len(nodes) : CleanNode(nodes[i])
          /\ \A p \in PathsOf(screen) :
               LET attributes == Get(NodeAt(screen, p), "attributes", EmptyDict)
               IN \A k \in DOMAIN attributes :
                    LET s == PyStr(attributes[k])
                    IN /\ _sanitize_text(_sanitize_text(s)) = _sanitize_text(s)
                       /\ Clean(s) => _sanitize_text(s) = s
  /\ HasElement
       => /\ \A k \in DOMAIN el.attrib_info : Clean(el.attrib_info[k])
          /\ el._xml_node # PyNone
               => LET nodes == DocOrder(el._xml_node)
                  IN \A i \in 1..Len(nodes) : CleanNode(nodes[i])

\* the bounds attribute "[2,<NUL>2][6,6<DEL>]" reached the Element as "[2,2][6,6]"
C9_Witness ==
  /\ ret.op = "locate"
  /\ Present(screen)
  /\ Get(Get(screen, "attributes", EmptyDict), "bounds", PyNone) = Str(BoundsDirty)
  /\ el.attrib_info = [type |-> <<65>>, bounds |-> <<91, 50, 44, 50, 93, 91, 54, 44, 54, 93>>]
  /\ el.bounds # PyNone

(***************************************************************************)
(* C10: an Element does not change after construction: after any of its    *)
(* operations, raising or not, and however the screen has changed, bounds, *)
(* the attribute mapping and exists() are what locate returned (only the   *)
(* cached center is filled in), no operation of the Element captures the   *)
(* hierarchy, and a stale bound Element clicks its original center.        *)
(***************************************************************************)
C10_ElementNeverChanges ==
  HasElement
    => /\ el.bounds = el0.bounds
       /\ el.attrib_info = el0.attrib_info
       /\ exists(el) = exists(el0)
       /\ el = [el0 EXCEPT !.center = el.center]
       /\ \A i \in 2..Len(calls) : calls[i].op # "dump_hierarchy"
       /\ (ret.op \in {"click", "click_if_exists"} /\ el0.bounds # PyNone)
            => Len(Made) = 1 /\ Midpoint(el0.bounds, Made[1])

\* the screen went blank after locate, and the bound Element still clicked
C10_Witness ==
  /\ HasElement
  /\ ~Present(screen)
  /\ ret.op = "click"
  /\ ret.outcome = "ok"
  /\ el0.bounds # PyNone
  /\ el.center # NotCached

====
